---- MODULE Spec2Model ----
(***************************************************************************)
(* Flask-Task-Manager (src/app.py): one table `todo` in SQLite, reached     *)
(* through Flask-SQLAlchemy, and five routes: /, /add, /toggle/<id>,        *)
(* /delete/<id>, /edit/<id>.                                                *)
(*                                                                          *)
(* Spec     : every handler runs to completion before the next one starts.  *)
(* ConcSpec : the toggle, delete and edit requests of two workers           *)
(*            interleave between their lookup (get_or_404) and their        *)
(*            commit (db.session.commit), as under Flask's threaded server. *)
(***************************************************************************)
EXTENDS Integers, Sequences, FiniteSets

VARIABLES
    todos,      \* the rows of table todo: [id, title, completed, created_at]
    last,       \* the request answered last: [op, id, title, status, seen]
    prev,       \* todos as they were when that request's last database step began
    rendered,   \* the list index() handed to render_template, <<>> after other requests
    gone,       \* ids removed by a delete and not handed out again by an add since
    sess        \* per worker: the SQLAlchemy session of a request between lookup and commit

vars == <<todos, last, prev, rendered, gone, sess>>

----------------------------------------------------------------------------
(* Bounds of the model *)

MaxId == 2          \* Spec: add is not taken once the next id would exceed MaxId
MaxTime == 1        \* datetime.utcnow() reads 0..MaxTime
MaxConcId == 1      \* ConcSpec: add is not taken once the next id would exceed it

ReqIds == 0..MaxId  \* ids a URL can carry; 0 never addresses a row
Times == 0..MaxTime
Workers == {1, 2}   \* ConcSpec: two requests in flight at once
Titles == {"a", "b"}
\* What a form can carry under the key 'title': no value, one, or two.
FormValues == Titles \cup {""}
Forms == {<<>>} \cup {<<s>> : s \in FormValues}
              \cup {<<s, "b">> : s \in FormValues}

(* HTTP status codes of the responses *)
Ok == 200
Redirect == 302
NotFound == 404
ServerError == 500

----------------------------------------------------------------------------
(* The model class and the storage layer *)

\* class Todo: a new row has completed = False (column default) and
\* created_at = datetime.utcnow() (column default, evaluated at INSERT).
Todo(id, title, now) ==
    [id |-> id, title |-> title, completed |-> FALSE, created_at |-> now]

SetMax(S) == CHOOSE m \in S : \A x \in S : x <= m

\* Variant of NextId: the id is the number of rows plus one.
NextIdByCount(S) == Cardinality(S) + 1

\* id is INTEGER PRIMARY KEY without AUTOINCREMENT: SQLite hands out
\* one more than the largest id in the table, 1 for an empty table.
NextId(S) ==
    IF S = {} THEN 1 ELSE SetMax({r.id : r \in S}) + 1

\* Todo.query.get(id): the rows with that primary key (none or one).
Get(S, id) == {r \in S : r.id = id}

\* UPDATE todo SET <field> = v WHERE id = <id>
UpdateRow(S, id, field, v) ==
    {IF r.id = id THEN [r EXCEPT ![field] = v] ELSE r : r \in S}

\* Variant of DeleteRow: the row is never removed.
DeleteRowKeeps(S, id) == S

\* DELETE FROM todo WHERE id = <id>
DeleteRow(S, id) == {r \in S : r.id # id}

\* request.form.get('title'): None (here <<>>) when the key is absent,
\* else the first value submitted.
FormGet(form) == IF form = <<>> THEN <<>> ELSE <<Head(form)>>

\* Variant of Truthy: `if title is not None`.
TruthyNotNone(v) == v # <<>>

\* `if title:` -- Python truthiness of what form.get returned: None and ''
\* are false, every other string is true.
Truthy(v) == v # <<>> /\ v[1] # ""

\* Todo.query.order_by(Todo.created_at.desc()).all(): every order of the
\* rows in which created_at never increases; SQL leaves the order of rows
\* with equal created_at open.
RECURSIVE Listings(_)
Listings(S) ==
    IF S = {} THEN {<<>>}
    ELSE UNION {{<<r>> \o l : l \in Listings(S \ {r})} :
                    r \in {x \in S : \A y \in S : y.created_at <= x.created_at}}

----------------------------------------------------------------------------
(* What db.session.commit() does for each handler, given the row the      *)
(* session loaded at lookup.  Result: the table and the response status.  *)

Result(S, status) == [todos |-> S, status |-> status]

\* add_todo: INSERT the new row, COMMIT.
CommitAdd(S, title, now) ==
    Result(S \cup {Todo(NextId(S), title, now)}, Redirect)

\* Variant of CommitToggle: the flag is set instead of flipped.
CommitToggleSet(S, row) ==
    IF Get(S, row.id) = {} THEN Result(S, ServerError)
    ELSE Result(UpdateRow(S, row.id, "completed", TRUE), Redirect)

\* toggle_todo: todo.completed = not todo.completed; commit.  The UPDATE
\* carries the negation of the value the session loaded; when it matches
\* no row the ORM raises StaleDataError and the request ends in a 500.
CommitToggle(S, row) ==
    IF Get(S, row.id) = {} THEN Result(S, ServerError)
    ELSE Result(UpdateRow(S, row.id, "completed", ~row.completed), Redirect)

\* delete_todo: db.session.delete(todo); commit.  A DELETE that matches no
\* row only warns.
CommitDelete(S, row) == Result(DeleteRow(S, row.id), Redirect)

\* Variant of CommitEdit: a constant is written instead of the new title.
CommitEditWrongTitle(S, row, title) ==
    IF title = row.title THEN Result(S, Redirect)
    ELSE IF Get(S, row.id) = {} THEN Result(S, ServerError)
    ELSE Result(UpdateRow(S, row.id, "title", "a"), Redirect)

\* Variant of CommitEdit: the write is refused when the row is no longer
\* the one the session loaded (optimistic locking).
CommitEditVersioned(S, row, title) ==
    IF title = row.title THEN Result(S, Redirect)
    ELSE IF row \notin S THEN Result(S, ServerError)
    ELSE Result(UpdateRow(S, row.id, "title", title), Redirect)

\* Variant of CommitEdit: the edited row is marked not completed.
CommitEditResetsFlag(S, row, title) ==
    IF title = row.title THEN Result(S, Redirect)
    ELSE IF Get(S, row.id) = {} THEN Result(S, ServerError)
    ELSE Result(UpdateRow(UpdateRow(S, row.id, "title", title),
                          row.id, "completed", FALSE), Redirect)

\* edit_todo: todo.title = title; commit.  The unit of work emits an UPDATE
\* only for an attribute whose value differs from the one the session
\* loaded; an UPDATE that matches no row raises StaleDataError (a 500).
CommitEdit(S, row, title) ==
    IF title = row.title THEN Result(S, Redirect)
    ELSE IF Get(S, row.id) = {} THEN Result(S, ServerError)
    ELSE Result(UpdateRow(S, row.id, "title", title), Redirect)

----------------------------------------------------------------------------
(* Bookkeeping of a finished request *)

Idle == [pc |-> "idle", op |-> "none", id |-> 0, title |-> <<>>, row |-> <<>>]

Request(op, id, title, status, seen) ==
    [op |-> op, id |-> id, title |-> title, status |-> status, seen |-> seen]

\* The request (op, id, title) ends with `status`, having turned the table
\* into S; `seen` is the row its session had loaded (<<>> when none).
Respond(op, id, title, status, seen, S) ==
    /\ todos' = S
    /\ prev' = todos
    /\ last' = Request(op, id, title, status, seen)
    /\ rendered' = <<>>
    /\ gone' = IF op = "delete" /\ status = Redirect THEN gone \cup {id}
               ELSE IF op = "add" THEN gone \ {r.id : r \in S \ todos}
               ELSE gone

----------------------------------------------------------------------------
(* Initial state: db.create_all() on a fresh todo.db *)

Init ==
    /\ todos = {}
    /\ last = Request("none", 0, <<>>, Ok, <<>>)
    /\ prev = {}
    /\ rendered = <<>>
    /\ gone = {}
    /\ sess = [w \in Workers |-> Idle]

\* GET /
Index ==
    /\ \E l \in Listings(todos) : rendered' = l
    /\ last' = Request("index", 0, <<>>, Ok, <<>>)
    /\ prev' = todos
    /\ UNCHANGED <<todos, gone, sess>>

\* POST /add, served while datetime.utcnow() reads `now`.  utcnow() is the
\* wall clock: two readings can be equal, and a later one can be smaller.
AddTodo(form, now) ==
    LET title == FormGet(form) IN
    /\ NextId(todos) <= MaxId
    /\ IF Truthy(title)
         THEN LET res == CommitAdd(todos, title[1], now) IN
              Respond("add", 0, title, res.status, <<>>, res.todos)
         ELSE Respond("add", 0, title, Redirect, <<>>, todos)
    /\ UNCHANGED sess

\* GET /toggle/<id>
ToggleTodo(id) ==
    /\ IF Get(todos, id) = {}
         THEN Respond("toggle", id, <<>>, NotFound, <<>>, todos)
         ELSE LET todo == CHOOSE r \in Get(todos, id) : TRUE
                  res == CommitToggle(todos, todo) IN
              Respond("toggle", id, <<>>, res.status, <<todo>>, res.todos)
    /\ UNCHANGED sess

\* GET /delete/<id>
DeleteTodo(id) ==
    /\ IF Get(todos, id) = {}
         THEN Respond("delete", id, <<>>, NotFound, <<>>, todos)
         ELSE LET todo == CHOOSE r \in Get(todos, id) : TRUE
                  res == CommitDelete(todos, todo) IN
              Respond("delete", id, <<>>, res.status, <<todo>>, res.todos)
    /\ UNCHANGED sess

\* POST /edit/<id>
EditTodo(id, form) ==
    LET title == FormGet(form) IN
    /\ IF Get(todos, id) = {}
         THEN Respond("edit", id, title, NotFound, <<>>, todos)
         ELSE LET todo == CHOOSE r \in Get(todos, id) : TRUE IN
              IF Truthy(title)
                THEN LET res == CommitEdit(todos, todo, title[1]) IN
                     Respond("edit", id, title, res.status, <<todo>>, res.todos)
                ELSE Respond("edit", id, title, Redirect, <<todo>>, todos)
    /\ UNCHANGED sess

Next ==
    \/ Index
    \/ \E form \in Forms, now \in Times : AddTodo(form, now)
    \/ \E id \in ReqIds : ToggleTodo(id)
    \/ \E id \in ReqIds : DeleteTodo(id)
    \/ \E id \in ReqIds, form \in Forms : EditTodo(id, form)

Spec == Init /\ [][Next]_vars

----------------------------------------------------------------------------
(* Interleaved requests.  A toggle, delete or edit request is two database *)
(* steps: the SELECT of get_or_404 and the UPDATE or DELETE plus COMMIT of  *)
(* db.session.commit(); each worker has a session of its own.  add_todo has *)
(* one database step (INSERT plus COMMIT).                                  *)

IdOps == {"toggle", "delete", "edit"}

\* Todo.query.get_or_404(id) of request (op, id, form) on worker w; an edit
\* whose title is empty returns right after it.  A request is served by the
\* first free worker.
Lookup(w, op, id, form) ==
    LET title == IF op = "edit" THEN FormGet(form) ELSE <<>> IN
    /\ sess[w].pc = "idle"
    /\ \A v \in Workers : v < w => sess[v].pc # "idle"
    /\ IF Get(todos, id) = {}
         THEN /\ Respond(op, id, title, NotFound, <<>>, todos)
              /\ UNCHANGED sess
         ELSE LET todo == CHOOSE r \in Get(todos, id) : TRUE IN
              IF op = "edit" /\ ~Truthy(title)
                THEN /\ Respond(op, id, title, Redirect, <<todo>>, todos)
                     /\ UNCHANGED sess
                ELSE /\ sess' = [sess EXCEPT ![w] =
                            [pc |-> "loaded", op |-> op, id |-> id,
                             title |-> title, row |-> <<todo>>]]
                     /\ UNCHANGED <<todos, last, prev, rendered, gone>>

\* db.session.commit() of the request worker w holds, then the redirect.
Commit(w) ==
    LET s == sess[w]
        todo == s.row[1]
        res == IF s.op = "toggle" THEN CommitToggle(todos, todo)
               ELSE IF s.op = "delete" THEN CommitDelete(todos, todo)
               ELSE CommitEdit(todos, todo, s.title[1]) IN
    /\ s.pc = "loaded"
    /\ Respond(s.op, s.id, s.title, res.status, s.row, res.todos)
    /\ sess' = [sess EXCEPT ![w] = Idle]

\* POST /add between the steps of the other requests.  created_at plays no
\* part in toggle, delete and edit: the clock reads 0 throughout.
ConcAdd(form) ==
    /\ NextId(todos) <= MaxConcId
    /\ AddTodo(form, 0)

ConcNext ==
    \/ \E form \in Forms : ConcAdd(form)
    \/ \E w \in Workers, id \in ReqIds : Lookup(w, "toggle", id, <<>>)
    \/ \E w \in Workers, id \in ReqIds : Lookup(w, "delete", id, <<>>)
    \/ \E w \in Workers, id \in ReqIds, form \in Forms : Lookup(w, "edit", id, form)
    \/ \E w \in Workers : Commit(w)

ConcSpec == Init /\ [][ConcNext]_vars

----------------------------------------------------------------------------
(* Properties *)

\* The rows the last request addressed, after and before it.
Target == Get(todos, last.id)
TargetBefore == Get(prev, last.id)
Answered(op) == last.op = op /\ last.status = Redirect
\* The title a request submitted is empty or absent.
EmptyTitle(v) == v = <<>> \/ v = <<"">>

\* C1 (as claimed): after an add with a non-empty title the table has one
\* row more and every listing order_by(created_at desc) can return starts
\* with the new row.
C1_NewItemFirst ==
    (last.op = "add" /\ ~EmptyTitle(last.title)) =>
        /\ Cardinality(todos) = Cardinality(prev) + 1
        /\ \A l \in Listings(todos) : l[1] \in todos \ prev

\* C2 (as claimed): whatever request comes next, adds included, an id that
\* was deleted addresses no row after it, and a toggle, delete or edit of
\* that id answers 404.
DeletedStaysDeleted ==
    \A i \in gone :
        /\ Get(todos', i) = {}
        /\ (last' # last /\ last'.op \in IdOps /\ last'.id = i) =>
                last'.status = NotFound
C3_TitleNonEmpty == \A r \in todos : r.title # ""

\* An empty or absent title was submitted to add or edit while rows exist.
C3_Witness ==
    /\ last.op \in {"add", "edit"}
    /\ EmptyTitle(last.title)
    /\ last.status = Redirect
    /\ todos # {}

\* C4 (as claimed): a toggle, delete or edit whose lookup finds no row
\* answers 404 and leaves the table as it was, and no request ends in any
\* error but 404.
C4_OnlyNotFound ==
    /\ (last.op \in IdOps /\ last.seen = <<>>) =>
            (last.status = NotFound /\ todos = prev)
    /\ last.status \in {Ok, Redirect, NotFound}

\* C5: an edit of an existing row answers with the redirect; with an empty
\* or absent title the row keeps its title, with a non-empty title the
\* stored title is the submitted one.
C5_EditTitle ==
    (last.op = "edit" /\ TargetBefore # {}) =>
        /\ last.status = Redirect
        /\ Target # {}
        /\ IF EmptyTitle(last.title)
             THEN \A r \in Target : \A p \in TargetBefore : r.title = p.title
             ELSE \A r \in Target : r.title = last.title[1]

\* An edit replaced the title of a row by a different one.
C5_Witness ==
    /\ Answered("edit")
    /\ ~EmptyTitle(last.title)
    /\ \E r \in Target : \E p \in TargetBefore :
            r.title = last.title[1] /\ p.title # r.title

\* C6: an add with an empty or absent title answers with the redirect and
\* leaves the rows, and so every listing of them, as they were.
C6_EmptyAddNoOp ==
    (last.op = "add" /\ EmptyTitle(last.title)) =>
        /\ last.status = Redirect
        /\ todos = prev
        /\ Listings(todos) = Listings(prev)

\* An add with an empty or absent title was answered while rows exist.
C6_Witness ==
    /\ last.op = "add"
    /\ EmptyTitle(last.title)
    /\ todos # {}

\* C7: a toggle leaves the row with the negation of its completed flag,
\* and a toggle request that directly follows a toggle of the same id
\* puts the table back to what it was before the first of the two.
ToggledOnce ==
    Answered("toggle") =>
        /\ Target # {}
        /\ \A r \in Target : \A p \in TargetBefore : r.completed = ~p.completed
ToggledTwice ==
    (Answered("toggle") /\ last'.op = "toggle" /\ last'.id = last.id) =>
        (last'.status = Redirect /\ todos' = prev)
C7_ToggleTwice == []ToggledOnce /\ [][ToggledTwice]_vars

\* A toggle turned a completed row back to not completed.
C7_Witness ==
    /\ Answered("toggle")
    /\ \E r \in Target : ~r.completed
    /\ \E p \in TargetBefore : p.completed

\* C8 (as claimed): an edit with a non-empty title that commits while the
\* row exists is answered with the redirect and leaves the row with the
\* title it submitted, whatever other edit was committed since its lookup.
C8_LastCommitWins ==
    (last.op = "edit" /\ ~EmptyTitle(last.title) /\ TargetBefore # {}) =>
        /\ last.status = Redirect
        /\ \A r \in Target : r.title = last.title[1]

\* C8 (amended): such an edit is answered with the redirect; it leaves the
\* row with the title it submitted when that title differs from the one
\* its lookup read, and leaves the table as it found it at commit when the
\* two are equal (no UPDATE is issued).
C8_LastWriteWins ==
    (last.op = "edit" /\ ~EmptyTitle(last.title) /\ TargetBefore # {}) =>
        /\ last.status = Redirect
        /\ IF last.title[1] = last.seen[1].title
             THEN todos = prev
             ELSE Target # {} /\ \A r \in Target : r.title = last.title[1]

\* An edit committed its title over a title another request had written
\* after the edit's lookup.
C8_Witness ==
    /\ Answered("edit")
    /\ ~EmptyTitle(last.title)
    /\ \E p \in TargetBefore : p.title # last.seen[1].title
    /\ \E r \in Target : r.title = last.title[1] /\ r.title # last.seen[1].title

\* C9: no two rows share an id; a request leaves every row it does not
\* delete in the table under the same id and created_at; only add brings
\* in an id.
C9_IdAndCreatedAt ==
    /\ Cardinality({r.id : r \in todos}) = Cardinality(todos)
    /\ \A p \in prev :
          \/ Answered("delete") /\ p.id = last.id
          \/ \E r \in todos : r.id = p.id /\ r.created_at = p.created_at
    /\ \A r \in todos : Get(prev, r.id) = {} => last.op = "add"

\* A toggle or an edit changed a row of a table of two rows.
C9_Witness ==
    /\ Answered("toggle") \/ Answered("edit")
    /\ todos # prev
    /\ Cardinality(todos) = 2

\* C10: a toggle changes the completed flag of its row and nothing else,
\* an edit the title of its row and nothing else, a delete removes its row
\* and nothing else, and index changes nothing.
C10_Frame ==
    /\ last.op = "index" => todos = prev
    /\ Answered("toggle") =>
          todos = {IF p.id = last.id THEN [p EXCEPT !.completed = ~p.completed]
                   ELSE p : p \in prev}
    /\ (Answered("edit") /\ ~EmptyTitle(last.title)) =>
          todos = {IF p.id = last.id THEN [p EXCEPT !.title = last.title[1]]
                   ELSE p : p \in prev}
    /\ (Answered("edit") /\ EmptyTitle(last.title)) => todos = prev
    /\ Answered("delete") =>
          /\ Cardinality(TargetBefore) = 1
          /\ todos = prev \ TargetBefore

\* An edit changed the title of a completed row next to another row.
C10_Witness ==
    /\ Answered("edit")
    /\ todos # prev
    /\ \E r \in Target : r.completed
    /\ Cardinality(todos) = 2

====
